---- MODULE Spec2Model ----
(***************************************************************************)
(* Model of src/src/app.js: the Task entity, the TodoApp store, its        *)
(* localStorage persistence (JSON.stringify / JSON.parse) and its          *)
(* renderer.  Every event handler of the page is one atomic action: the    *)
(* page is single threaded and a handler runs to completion (or to an      *)
(* uncaught exception) before the next event is taken.                     *)
(***************************************************************************)
EXTENDS Integers, Sequences, FiniteSets

VARIABLES
  tasks,          \* TodoApp.tasks: sequence of in-memory task objects
  currentFilter,  \* TodoApp.currentFilter
  localStorage,   \* the 'tasks' slot of window.localStorage
  dom,            \* what renderTasks last wrote: rows and the two counters
  now,            \* the wall clock read by new Date(), in ticks
  last            \* the last handler that ran: its arguments, the state it
                  \* started from, the effects it performed and whether it threw

vars == <<tasks, currentFilter, localStorage, dom, now, last>>

----------------------------------------------------------------------------
(* Bounds of the model *)

MaxTasks == 2       \* addTask is not offered beyond this list length
MaxClock == 2       \* the clock stops ticking here
TicksPerDay == 2    \* clock granularity: one tick is MsPerDay \div TicksPerDay ms

(* Input domains *)

Ids == {"id1", "id2"}     \* values Math.random().toString(36).substring(2, 11) may yield

\* what the add form may hold when #addBtn is clicked: the trimmed #taskInput,
\* #categorySelect and #statusSelect
AddForms == {<<"Buy milk", "home", "not-started">>,
             <<"Write report", "work", "in-progress">>,
             <<"Read chapter", "home", "completed">>,
             <<"", "study", "completed">>}

Filters == {"all", "home", "work", "study"}   \* data-category of the filter buttons

----------------------------------------------------------------------------
(* Enumerations, src/src/app.js:15-35 *)

TaskCategory == [HOME |-> "home", WORK |-> "work", STUDY |-> "study"]

TaskStatus == [NOT_STARTED |-> "not-started", IN_PROGRESS |-> "in-progress",
               COMPLETED |-> "completed"]

Statuses == {TaskStatus.NOT_STARTED, TaskStatus.IN_PROGRESS, TaskStatus.COMPLETED}

----------------------------------------------------------------------------
(* Time.  new Date() is a Date object holding the clock's milliseconds;     *)
(* JSON.stringify turns a Date into its ISO string (Date.prototype.toJSON), *)
(* which JSON.parse gives back as a string, not as a Date.                  *)

MsPerDay == 1000 * 60 * 60 * 24

TickMs == MsPerDay \div TicksPerDay

NewDate(clock) == [type |-> "Date", ms |-> clock * TickMs]

toISOString(d) == [type |-> "string", iso |-> d.ms]

toJSONValue(v) == IF v.type = "Date" THEN toISOString(v) ELSE v

----------------------------------------------------------------------------
(* class Task *)

\* constructor(title, category, status); id is what Math.random() yields
Task(title, category, status, id, clock) ==
  [id |-> id, title |-> title, category |-> category, status |-> status,
   createdAt |-> NewDate(clock), proto |-> "Task"]

\* a slip in updateStatus: the new status is written to the wrong property
updateStatusWrongField(task, newStatus) == [task EXCEPT !.category = newStatus]

\* Task.prototype.updateStatus
updateStatus(task, newStatus) == [task EXCEPT !.status = newStatus]

\* Only objects built by the Task constructor have the prototype's methods
hasMethods(task) == task.proto = "Task"

----------------------------------------------------------------------------
(* Task.prototype.calculatePriority, in exact rational arithmetic: a number *)
(* is [num, den] in lowest terms with den > 0; a division by zero gives     *)
(* Infinity, [num |-> 1, den |-> 0].                                        *)

RECURSIVE GCD(_, _)
GCD(a, b) == IF b = 0 THEN a ELSE GCD(b, a % b)

Abs(n) == IF n < 0 THEN -n ELSE n

Rat(n, d) ==
  IF d = 0 THEN [num |-> 1, den |-> 0]
  ELSE LET g == GCD(Abs(n), Abs(d))
           sgn == IF d < 0 THEN -1 ELSE 1
       IN [num |-> sgn * (n \div g), den |-> sgn * (d \div g)]

RatAddInt(x, k) == Rat(x.num + k * x.den, x.den)

RatInverse(x) == Rat(x.den, x.num)

\* x < y, for finite x and y
RatLess(x, y) == x.num * y.den < y.num * x.den

\* a slip in calculatePriority: the age taken as createdAt - now
calculatePriorityNegatedAge(task, clock) ==
  LET ageInDays == Rat(task.createdAt.ms - NewDate(clock).ms, MsPerDay)
  IN RatInverse(RatAddInt(ageInDays, 1))

calculatePriority(task, clock) ==
  LET ageInDays == Rat(NewDate(clock).ms - task.createdAt.ms, MsPerDay)
  IN RatInverse(RatAddInt(ageInDays, 1))

----------------------------------------------------------------------------
(* JSON *)

\* JSON.stringify of one task: own enumerable properties, Date as ISO string
stringifyTask(t) ==
  [id |-> t.id, title |-> t.title, category |-> t.category, status |-> t.status,
   createdAt |-> toJSONValue(t.createdAt)]

\* JSON.parse of one object: a plain Object with the same properties
parseTask(j) ==
  [id |-> j.id, title |-> j.title, category |-> j.category, status |-> j.status,
   createdAt |-> j.createdAt, proto |-> "Object"]

RECURSIVE JSONstringify(_)
JSONstringify(ts) ==
  IF ts = <<>> THEN <<>> ELSE <<stringifyTask(Head(ts))>> \o JSONstringify(Tail(ts))

RECURSIVE JSONparse(_)
JSONparse(json) ==
  IF json = <<>> THEN <<>> ELSE <<parseTask(Head(json))>> \o JSONparse(Tail(json))

\* localStorage slot 'tasks': absent (getItem gives null) or a stored JSON text
NoItem == [has |-> FALSE, value |-> <<>>]

setItem(value) == [has |-> TRUE, value |-> value]

----------------------------------------------------------------------------
(* Array helpers, as the engine computes them: left to right *)

\* Array.prototype.find(t => t.id === taskId): index of the first match, 0 if none
RECURSIVE findFrom(_, _, _)
findFrom(ts, taskId, i) ==
  IF i > Len(ts) THEN 0
  ELSE IF ts[i].id = taskId THEN i
  ELSE findFrom(ts, taskId, i + 1)

find(ts, taskId) == findFrom(ts, taskId, 1)

\* Array.prototype.filter(t => t.id !== taskId)
RECURSIVE filterNotId(_, _)
filterNotId(ts, taskId) ==
  IF ts = <<>> THEN <<>>
  ELSE IF Head(ts).id # taskId THEN <<Head(ts)>> \o filterNotId(Tail(ts), taskId)
  ELSE filterNotId(Tail(ts), taskId)

\* Array.prototype.filter(t => t.category === category)
RECURSIVE filterCategory(_, _)
filterCategory(ts, category) ==
  IF ts = <<>> THEN <<>>
  ELSE IF Head(ts).category = category
       THEN <<Head(ts)>> \o filterCategory(Tail(ts), category)
  ELSE filterCategory(Tail(ts), category)

\* this.tasks.filter(t => t.status === TaskStatus.COMPLETED).length
RECURSIVE countCompleted(_)
countCompleted(ts) ==
  IF ts = <<>> THEN 0
  ELSE (IF Head(ts).status = TaskStatus.COMPLETED THEN 1 ELSE 0) + countCompleted(Tail(ts))

----------------------------------------------------------------------------
(* class TodoApp.  A method maps the application record                     *)
(*   [tasks, currentFilter, localStorage, dom, log, threw]                  *)
(* to the record it leaves; log lists the effects performed, in order.      *)

\* a slip in getFilteredTasks: 'all' not told apart from a category
getFilteredTasksNoAll(app) == filterCategory(app.tasks, app.currentFilter)

getFilteredTasks(app) ==
  IF app.currentFilter = "all"
  THEN app.tasks
  ELSE filterCategory(app.tasks, app.currentFilter)

getCategoryIcon(category) ==
  IF category = TaskCategory.HOME THEN "house"
  ELSE IF category = TaskCategory.WORK THEN "briefcase"
  ELSE IF category = TaskCategory.STUDY THEN "books"
  ELSE "pin"

getStatusText(status) ==
  IF status = TaskStatus.NOT_STARTED THEN "Ne nachato"
  ELSE IF status = TaskStatus.IN_PROGRESS THEN "V processe"
  ELSE IF status = TaskStatus.COMPLETED THEN "Gotovo"
  ELSE "undefined"

\* one <li> of renderTasks
Row(task) ==
  [id |-> task.id, title |-> task.title, icon |-> getCategoryIcon(task.category),
   statusText |-> getStatusText(task.status), selected |-> task.status,
   completed |-> (task.status = TaskStatus.COMPLETED)]

RECURSIVE Rows(_)
Rows(ts) == IF ts = <<>> THEN <<>> ELSE <<Row(Head(ts))>> \o Rows(Tail(ts))

renderTasks(app) ==
  [app EXCEPT !.dom = [rows |-> Rows(getFilteredTasks(app)),
                       totalTasks |-> Len(app.tasks),
                       completedTasks |-> countCompleted(app.tasks)],
              !.log = Append(@, "render")]

saveTasks(app) ==
  [app EXCEPT !.localStorage = setItem(JSONstringify(app.tasks)),
              !.log = Append(@, "save")]

loadTasks(app) ==
  IF app.localStorage.has
  THEN [app EXCEPT !.tasks = JSONparse(app.localStorage.value), !.log = Append(@, "load")]
  ELSE app

\* a slip in addTask: unshift in place of push
unshiftTask(app, task) ==
  [app EXCEPT !.tasks = <<task>> \o @, !.log = Append(@, "mutate")]

pushTask(app, task) ==
  [app EXCEPT !.tasks = Append(@, task), !.log = Append(@, "mutate")]

addTask(app, title, category, status, id, clock) ==
  renderTasks(saveTasks(pushTask(app, Task(title, category, status, id, clock))))

\* task.updateStatus(newStatus) on element i; a plain Object has no such method
\* and the call throws a TypeError, which nothing catches
callUpdateStatus(app, i, newStatus) ==
  IF hasMethods(app.tasks[i])
  THEN [app EXCEPT !.tasks[i] = updateStatus(@, newStatus), !.log = Append(@, "mutate")]
  ELSE [app EXCEPT !.threw = TRUE]

updateTaskStatus(app, taskId, newStatus) ==
  LET i == find(app.tasks, taskId) IN
    IF i # 0
    THEN LET a1 == callUpdateStatus(app, i, newStatus) IN
           IF a1.threw THEN a1 ELSE renderTasks(saveTasks(a1))
    ELSE app

removeTask(app, taskId) ==
  [app EXCEPT !.tasks = filterNotId(@, taskId), !.log = Append(@, "mutate")]

deleteTask(app, taskId) == renderTasks(saveTasks(removeTask(app, taskId)))

\* click on a .filter-btn
setFilter(app, category) == renderTasks([app EXCEPT !.currentFilter = category])

\* new TodoApp() over the storage the page finds
construct(storage) ==
  renderTasks(loadTasks([tasks |-> <<>>, currentFilter |-> "all", localStorage |-> storage,
                         dom |-> [rows |-> <<>>, totalTasks |-> 0, completedTasks |-> 0],
                         log |-> <<>>, threw |-> FALSE]))

----------------------------------------------------------------------------
(* The state machine *)

\* the application record a handler starts from
App == [tasks |-> tasks, currentFilter |-> currentFilter, localStorage |-> localStorage,
        dom |-> dom, log |-> <<>>, threw |-> FALSE]

NoArg == "-"

\* the state after handler op has left application record a
Commit(a, op, id, title, category, status) ==
  /\ tasks' = a.tasks
  /\ currentFilter' = a.currentFilter
  /\ localStorage' = a.localStorage
  /\ dom' = a.dom
  /\ last' = [op |-> op, id |-> id, title |-> title, category |-> category,
              status |-> status, pre |-> tasks, log |-> a.log, threw |-> a.threw,
              afterAdd |-> (last.op = "add")]
  /\ UNCHANGED now

Init ==
  LET a == construct(NoItem) IN
    /\ tasks = a.tasks
    /\ currentFilter = a.currentFilter
    /\ localStorage = a.localStorage
    /\ dom = a.dom
    /\ now = 0
    /\ last = [op |-> "construct", id |-> NoArg, title |-> NoArg, category |-> NoArg,
               status |-> NoArg, pre |-> <<>>, log |-> a.log, threw |-> a.threw,
               afterAdd |-> FALSE]

\* click on #addBtn: the handler trims the input and ignores an empty title
AddClick(title, category, status, id) ==
  /\ Len(tasks) < MaxTasks
  /\ IF title # ""
     THEN Commit(addTask(App, title, category, status, id, now),
                 "add", id, title, category, status)
     ELSE UNCHANGED vars

\* change of a row's status select, or a direct call app.updateTaskStatus(id, s)
UpdateTaskStatus(taskId, newStatus) ==
  Commit(updateTaskStatus(App, taskId, newStatus), "update", taskId, NoArg, NoArg, newStatus)

\* click on a row's delete button, or a direct call app.deleteTask(id)
DeleteTask(taskId) ==
  Commit(deleteTask(App, taskId), "delete", taskId, NoArg, NoArg, NoArg)

FilterClick(category) ==
  Commit(setFilter(App, category), "filter", NoArg, NoArg, category, NoArg)

\* the page is loaded again: the script runs new TodoApp() over the stored slot
Reload ==
  Commit(construct(localStorage), "construct", NoArg, NoArg, NoArg, NoArg)

\* time passes
Tick ==
  /\ now < MaxClock
  /\ now' = now + 1
  /\ UNCHANGED <<tasks, currentFilter, localStorage, dom, last>>

\* The store: every handler of the page, within one reading of the clock
Next ==
  \/ \E form \in AddForms, id \in Ids : AddClick(form[1], form[2], form[3], id)
  \/ \E taskId \in Ids, newStatus \in Statuses : UpdateTaskStatus(taskId, newStatus)
  \/ \E taskId \in Ids : DeleteTask(taskId)
  \/ \E category \in Filters : FilterClick(category)
  \/ Reload

Spec == Init /\ [][Next]_vars

\* Tasks ageing: tasks are added and deleted while time passes
NextClock ==
  \/ \E form \in AddForms, id \in Ids : AddClick(form[1], form[2], form[3], id)
  \/ \E taskId \in Ids : DeleteTask(taskId)
  \/ Tick

SpecClock == Init /\ [][NextClock]_vars

----------------------------------------------------------------------------
(* Vocabulary of the properties, stated without the operators above *)

Present(ts, id) == \E i \in 1..Len(ts) : ts[i].id = id

\* the instant a createdAt value denotes, Date object or ISO string alike
Instant(v) == IF v.type = "Date" THEN v.ms ELSE v.iso

\* a stored JSON object holds the field values of an in-memory task
SameAsStored(j, t) ==
  /\ j.id = t.id /\ j.title = t.title /\ j.category = t.category
  /\ j.status = t.status /\ Instant(j.createdAt) = Instant(t.createdAt)

\* the slot holds exactly the list ts: same tasks, same order, same field values
PersistedIs(ts) ==
  /\ localStorage.has
  /\ Len(localStorage.value) = Len(ts)
  /\ \A i \in 1..Len(ts) : SameAsStored(localStorage.value[i], ts[i])

NumCompleted(ts) == Cardinality({i \in 1..Len(ts) : ts[i].status = "completed"})

\* ts without its element at position i
Without(ts, i) == [k \in 1..(Len(ts) - 1) |-> IF k < i THEN ts[k] ELSE ts[k + 1]]

\* the fields of a task that are fixed at its creation
Fixed(t) == [id |-> t.id, title |-> t.title, category |-> t.category,
             createdAt |-> t.createdAt]

\* r is ts with some elements dropped, the others kept as they are and in order
RECURSIVE IsSubsequence(_, _)
IsSubsequence(r, ts) ==
  IF r = <<>> THEN TRUE
  ELSE IF ts = <<>> THEN FALSE
  ELSE IF Head(r) = Head(ts) THEN IsSubsequence(Tail(r), Tail(ts))
  ELSE IsSubsequence(r, Tail(ts))

\* the positions of ts whose task has category c, and the k-th of them
CategoryPositions(ts, c) == {i \in 1..Len(ts) : ts[i].category = c}

KthOf(S, k) == CHOOSE i \in S : Cardinality({j \in S : j <= i}) = k

IsCategorySubsequence(r, ts, c) ==
  /\ Len(r) = Cardinality(CategoryPositions(ts, c))
  /\ \A k \in 1..Len(r) : r[k] = ts[KthOf(CategoryPositions(ts, c), k)]

\* the handler that just ran was an add, an update of a present id, or a delete
WasMutation ==
  \/ last.op = "add"
  \/ last.op = "delete"
  \/ last.op = "update" /\ Present(last.pre, last.id)

----------------------------------------------------------------------------
(* The properties, by claim *)

\* C1: in every state after startup and after any completed handler the
\* in-memory list equals the content last written to the 'tasks' slot (same
\* tasks, order and field values; nothing written yet means an empty list), and
\* every add, update of a present id and delete has rewritten the whole list.
C1_StoreIsPersisted ==
  /\ IF localStorage.has THEN PersistedIs(tasks) ELSE tasks = <<>>
  /\ WasMutation => ("save" \in {last.log[k] : k \in 1..Len(last.log)} /\ PersistedIs(tasks))

\* C2: updateTaskStatus(id, s) on a present id sets that task's status to s and
\* leaves its other fields, every other task, the order and the length alone;
\* on an absent id it changes neither list nor storage; it raises no error.
\* Loaded lists included.
C2_UpdateFrame ==
  last.op = "update" =>
    /\ ~last.threw
    /\ IF Present(last.pre, last.id)
       THEN /\ Len(tasks) = Len(last.pre)
            /\ \E i \in 1..Len(tasks) :
                 /\ last.pre[i].id = last.id
                 /\ tasks[i] = [last.pre[i] EXCEPT !.status = last.status]
                 /\ \A j \in 1..Len(tasks) : j # i => tasks[j] = last.pre[j]
       ELSE tasks = last.pre /\ last.log = <<>>

\* C3: deleteTask(id) on a present id shortens the list by exactly 1, removing
\* exactly that entry and keeping the others in order; on an absent id the list
\* is unchanged; it raises no error.
C3_DeleteOne ==
  last.op = "delete" =>
    /\ ~last.threw
    /\ IF Present(last.pre, last.id)
       THEN /\ Len(tasks) = Len(last.pre) - 1
            /\ \E i \in 1..Len(last.pre) :
                 last.pre[i].id = last.id /\ tasks = Without(last.pre, i)
       ELSE tasks = last.pre

\* C4: addTask(title, category, status) with a valid title lengthens the list by
\* exactly 1, the new task is the last element and carries the three inputs, and
\* the tasks present before are unchanged and in the same order.
C4_AddAppends ==
  last.op = "add" =>
    /\ ~last.threw
    /\ Len(tasks) = Len(last.pre) + 1
    /\ tasks[Len(tasks)].title = last.title
    /\ tasks[Len(tasks)].category = last.category
    /\ tasks[Len(tasks)].status = last.status
    /\ \A i \in 1..Len(last.pre) : tasks[i] = last.pre[i]

C4_Witness ==
  /\ last.op = "add"
  /\ Len(last.pre) >= 1
  /\ tasks[Len(tasks)] # tasks[1]
  /\ tasks[Len(tasks)].status = "in-progress"

\* C5: a list built by addTask, saved and then loaded at a fresh startup, is the
\* original field for field (id, title, category, status, createdAt) and in
\* order, and the store's operations behave on it as on the original.
BuiltByAddTask(ts) == \A i \in 1..Len(ts) : ts[i].proto = "Task"

SameFields(t, u) ==
  /\ t.id = u.id /\ t.title = u.title /\ t.category = u.category
  /\ t.status = u.status /\ t.createdAt = u.createdAt

SameLists(ts, us) ==
  Len(ts) = Len(us) /\ \A i \in 1..Len(ts) : SameFields(ts[i], us[i])

C5_RoundTrip ==
  (last.op = "construct" /\ BuiltByAddTask(last.pre) /\ localStorage.has) =>
    /\ SameLists(tasks, last.pre)
    /\ \A id \in Ids, s \in Statuses :
         LET loaded == updateTaskStatus(App, id, s)
             original == updateTaskStatus([App EXCEPT !.tasks = last.pre], id, s)
         IN /\ loaded.threw = original.threw
            /\ SameLists(loaded.tasks, original.tasks)

\* C6: getFilteredTasks gives the whole list under filter 'all' and otherwise
\* exactly the tasks whose category is the filter, in list order; evaluating it
\* (as a filter change does, through renderTasks) changes neither the list nor
\* the filter nor the storage.
C6_Filtered ==
  /\ IF currentFilter = "all"
     THEN getFilteredTasks(App) = tasks
     ELSE IsCategorySubsequence(getFilteredTasks(App), tasks, currentFilter)
  /\ last.op = "filter" =>
       /\ tasks = last.pre
       /\ currentFilter = last.category
       /\ last.log = <<"render">>
       /\ localStorage.has => PersistedIs(last.pre)

C6_Witness ==
  /\ last.op = "filter"
  /\ currentFilter = "work"
  /\ Len(tasks) = 2
  /\ tasks[1].category = "home"
  /\ tasks[2].category = "work"
  /\ Len(getFilteredTasks(App)) = 1

\* C7: after startup and after every completed handler the totalTasks counter
\* shown is the length of the whole list and the completedTasks counter shown is
\* the number of 'completed' tasks in the whole list, whatever the filter; and
\* an add followed by updateTaskStatus(id, 'completed') with the id of the task
\* added raises completedTasks from 0 to 1.
C7_Counters ==
  /\ dom.totalTasks = Len(tasks)
  /\ dom.completedTasks = NumCompleted(tasks)
  /\ ( /\ last.op = "update"
       /\ last.afterAdd
       /\ last.status = "completed"
       /\ last.id = last.pre[Len(last.pre)].id
       /\ NumCompleted(last.pre) = 0 ) => dom.completedTasks = 1

\* C8: between its creation (or load) and its deletion a task's id, title,
\* category and createdAt never change: no handler modifies any field of an
\* existing task but its status.
RECURSIVE FixedOf(_)
FixedOf(ts) == IF ts = <<>> THEN <<>> ELSE <<Fixed(Head(ts))>> \o FixedOf(Tail(ts))

C8_FixedFields ==
  /\ last.op \in {"update", "filter"} => FixedOf(tasks) = FixedOf(last.pre)
  /\ last.op = "add" =>
       /\ Len(tasks) > Len(last.pre)
       /\ SubSeq(tasks, 1, Len(last.pre)) = last.pre
  /\ last.op = "delete" => IsSubsequence(tasks, last.pre)

C8_Witness ==
  /\ last.op = "update"
  /\ Len(tasks) = 2
  /\ tasks[2].status # last.pre[2].status
  /\ tasks[1] = last.pre[1]

\* C9: calculatePriority() is 1/(ageInDays+1): of two tasks the older one has the
\* strictly smaller priority, every priority lies in (0, 1], and it is 1 exactly
\* at age 0 (ages are never negative: the clock does not run backwards).
AgeTicks(t) == now - (t.createdAt.ms \div TickMs)

C9_Priority ==
  \A i \in 1..Len(tasks) :
    LET p == calculatePriority(tasks[i], now) IN
      /\ AgeTicks(tasks[i]) >= 0
      /\ p.den > 0
      /\ p.num * (AgeTicks(tasks[i]) + TicksPerDay) = p.den * TicksPerDay
      /\ p.num > 0 /\ p.num <= p.den
      /\ (p.num = p.den) <=> (AgeTicks(tasks[i]) = 0)
      /\ \A j \in 1..Len(tasks) :
           AgeTicks(tasks[i]) < AgeTicks(tasks[j]) =>
             RatLess(calculatePriority(tasks[j], now), p)

C9_Witness ==
  /\ Len(tasks) = 2
  /\ AgeTicks(tasks[1]) = 2
  /\ AgeTicks(tasks[2]) = 1

\* C10: every add, update of a present id and delete performs list mutation,
\* then the persistence write, then the full re-render, in that order; and after
\* startup and after every completed handler the rendered rows are exactly
\* getFilteredTasks() of the current list and filter, one row per task in list
\* order, each showing the task's current status.
ShownTasks ==
  IF currentFilter = "all" THEN tasks
  ELSE [k \in 1..Cardinality(CategoryPositions(tasks, currentFilter)) |->
          tasks[KthOf(CategoryPositions(tasks, currentFilter), k)]]

C10_MutateSaveRender ==
  /\ WasMutation => last.log = <<"mutate", "save", "render">>
  /\ Len(dom.rows) = Len(ShownTasks)
  /\ \A k \in 1..Len(dom.rows) :
       /\ dom.rows[k].id = ShownTasks[k].id
       /\ dom.rows[k].title = ShownTasks[k].title
       /\ dom.rows[k].selected = ShownTasks[k].status
       /\ dom.rows[k].completed = (ShownTasks[k].status = "completed")

====
